---- MODULE Spec2Model ----
(***************************************************************************)
(* DLMM fee router: the distribution engine of programs/dlmm-fee-router.   *)
(* One vault, its DistributionState, the two program-owned treasuries and  *)
(* the instructions initialize_vault, initialize_fee_position,             *)
(* update_investor_data and distribute_fees.  An instruction that returns  *)
(* an error commits nothing (the runtime discards the transaction), so     *)
(* every instruction is one atomic step.                                   *)
(***************************************************************************)
EXTENDS Integers, Sequences, FiniteSets, TLC

\* ------------------------------------------------------------------------
\* Bounds of the model
\* ------------------------------------------------------------------------
\* u64 values are kept in WordBits bits (the model's integers are 32 bit).
WordBits == 28
\* i32 values (bin ids) are kept in TickBits bits.
TickBits == 24
\* distribution days started in one behaviour
MaxDay == 2
\* largest page index submitted
MaxPage == 1
\* clock steps; each step is TickStep seconds
MaxTicks == 2
TickStep == 43200
\* the long-run specification: one day with more pages than the bitmap holds
MaxPageLong == 129
\* u32 values (page numbers) are kept in PageBits bits.
PageBits == 14
\* the dust run: one day with more pages than a page number can count
MaxPageDust == 16400

U64_MAX == 2^WordBits - 1
U32_MAX == 2^PageBits - 1
I32_MAX == 2^(TickBits - 1) - 1
I32_MIN == 0 - 2^(TickBits - 1)

\* ------------------------------------------------------------------------
\* Program constants
\* ------------------------------------------------------------------------
SECONDS_PER_DAY == 86400
MAX_BPS == 10000
\* width of pages_done_mask (u128)
MASK_BITS == 128
\* width of the quote-only range in bin steps
RANGE_STEPS == 100

\* ------------------------------------------------------------------------
\* Integer operations of the u64 / i32 types
\* ------------------------------------------------------------------------
None == -1

\* `let x = e; F(x)`: e is evaluated once and F sees its value
Bind(e, F(_)) == CHOOSE y \in { F(x) : x \in { e } } : TRUE

checked_mul(a, b) == IF a # 0 /\ b > U64_MAX \div a THEN None ELSE a * b

checked_div(a, b) == IF b = 0 THEN None ELSE a \div b

saturating_mul(a, b) == IF a # 0 /\ b > U64_MAX \div a THEN U64_MAX ELSE a * b

saturating_add(a, b) == IF a + b > U64_MAX THEN U64_MAX ELSE a + b

saturating_sub(a, b) == IF a < b THEN 0 ELSE a - b

\* `a + b` and `a += b` on u64: a build with overflow checks panics (None),
\* a build without them wraps.
unchecked_add(a, b, oc) ==
    IF a + b > U64_MAX THEN (IF oc THEN None ELSE (a + b) % (U64_MAX + 1)) ELSE a + b

\* `a += b` on u32, as unchecked_add
unchecked_add_u32(a, b, oc) ==
    IF a + b > U32_MAX THEN (IF oc THEN None ELSE (a + b) % (U32_MAX + 1)) ELSE a + b

i32_saturating_add(a, b) ==
    IF a + b > I32_MAX THEN I32_MAX ELSE IF a + b < I32_MIN THEN I32_MIN ELSE a + b

i32_saturating_sub(a, b) ==
    IF a - b > I32_MAX THEN I32_MAX ELSE IF a - b < I32_MIN THEN I32_MIN ELSE a - b

\* Option<u64>: <<>> is None, <<c>> is Some(c)
NoCap == <<>>
SomeCap(c) == <<c>>

\* ------------------------------------------------------------------------
\* State
\* ------------------------------------------------------------------------
VARIABLES
    vault,            \* the Vault account
    ds,               \* the DistributionState account
    treasury_quote,   \* balance of the program-owned quote treasury
    treasury_base,    \* balance of the program-owned base treasury
    treasury_mint,    \* mint of the quote treasury, fixed at creation
    now,              \* Clock::unix_timestamp
    last,             \* observation of the last instruction
    applied           \* pages whose effects were committed in the current day, in order

vars == <<vault, ds, treasury_quote, treasury_base, treasury_mint, now, last, applied>>

\* the accounts before initialize_vault: zeroed
VaultDefault ==
    [ creator_wallet |-> "",
      pool |-> "",
      quote_mint |-> "",
      fee_position |-> "",
      investor_fee_share_bps |-> 0,
      min_payout_lamports |-> 0,
      daily_cap_lamports |-> NoCap,
      total_investor_allocation |-> 0,
      is_initialized |-> FALSE,
      position_initialized |-> FALSE ]

DistributionStateDefault ==
    [ last_distribution_ts |-> 0,
      current_day |-> 0,
      daily_distributed |-> 0,
      carry_over |-> 0,
      current_page |-> 0,
      day_complete |-> FALSE,
      day_claimed_fees |-> 0,
      day_investor_total |-> 0,
      page_cursor |-> 0,
      pages_processed |-> 0,
      pages_done_mask |-> {} ]

\* ------------------------------------------------------------------------
\* DistributionState methods (state/distribution.rs)
\* ------------------------------------------------------------------------
\* a gate that does not wait for the day to pass
can_distribute_no_wait(d, current_ts) ==
    current_ts >= d.last_distribution_ts

\* a gate that also waits for the running day to be closed
can_distribute_after_close(d, current_ts) ==
    /\ d.current_day = 0 \/ d.day_complete
    /\ current_ts >= d.last_distribution_ts + SECONDS_PER_DAY

can_distribute(d, current_ts) ==
    current_ts >= d.last_distribution_ts + SECONDS_PER_DAY

\* a day start that also forgets the carry-over
start_new_day_clears_carry_over(d, current_ts) ==
    [ d EXCEPT !.last_distribution_ts = current_ts,
               !.current_day = @ + 1,
               !.daily_distributed = 0,
               !.carry_over = 0,
               !.current_page = 0,
               !.day_complete = FALSE,
               !.day_claimed_fees = 0,
               !.day_investor_total = 0,
               !.page_cursor = 0,
               !.pages_processed = 0,
               !.pages_done_mask = {} ]

\* a day start that keeps the cap counter of the day before
start_new_day_keeps_daily_distributed(d, current_ts) ==
    [ d EXCEPT !.last_distribution_ts = current_ts,
               !.current_day = @ + 1,
               !.current_page = 0,
               !.day_complete = FALSE,
               !.day_claimed_fees = 0,
               !.day_investor_total = 0,
               !.page_cursor = 0,
               !.pages_processed = 0,
               !.pages_done_mask = {} ]

start_new_day(d, current_ts) ==
    [ d EXCEPT !.last_distribution_ts = current_ts,
               !.current_day = @ + 1,
               !.daily_distributed = 0,
               !.current_page = 0,
               !.day_complete = FALSE,
               !.day_claimed_fees = 0,
               !.day_investor_total = 0,
               !.page_cursor = 0,
               !.pages_processed = 0,
               !.pages_done_mask = {} ]

\* pages_done_mask is the set of the bits that are set
is_page_done(d, page) ==
    IF page >= MASK_BITS THEN FALSE ELSE page \in d.pages_done_mask

\* a mask without the 128-bit limit
mark_page_done_any_index(d, page) ==
    [ d EXCEPT !.pages_done_mask = @ \cup {page} ]

mark_page_done(d, page) ==
    IF page >= MASK_BITS THEN d
    ELSE [ d EXCEPT !.pages_done_mask = @ \cup {page} ]

\* ------------------------------------------------------------------------
\* Observation of one instruction (what the caller and the ledger see)
\* ------------------------------------------------------------------------
NoCall ==
    [ op |-> "none",
      authority |-> "",            \* the signer of the instruction
      page |-> 0,
      is_final |-> FALSE,
      result |-> "Ok",
      started |-> FALSE,           \* start_new_day was committed
      claim_ran |-> FALSE,         \* the claim CPI was invoked
      base_before |-> 0,
      base_after |-> 0,
      quote_delta |-> 0,
      effects |-> FALSE,           \* the page's payouts and counters were committed
      fee_quote |-> 0,             \* investor_fee_quote of the page
      rounding_remainder |-> 0,
      lines |-> <<>>,              \* per investor: amount, daily_distributed at its turn, paid
      roster |-> <<>>,             \* locked amounts of the page, where the run records them
      args |-> <<>>,               \* arguments and return value of a helper called on its own
      ret |-> <<>>,
      creator_payout |-> 0,
      closed |-> FALSE ]           \* the creator branch ran (day_complete set)

\* ------------------------------------------------------------------------
\* distribute_fees (instructions/distribute_fees.rs)
\* ------------------------------------------------------------------------
\* the claim checks without the comparison of base_after with base_before
claim_guard_no_delta_check(base_before, base_after, claimed_quote) ==
    IF ~(base_before = 0) THEN "BaseFeesDetected"
    ELSE IF ~(claimed_quote > 0) THEN "NoFeesToClaim"
    ELSE "Ok"

\* the claim checks without the test of base_before
claim_guard_no_before_check(base_before, base_after, claimed_quote) ==
    IF ~(base_after = base_before) THEN "BaseFeesDetected"
    ELSE IF ~(claimed_quote > 0) THEN "NoFeesToClaim"
    ELSE "Ok"

\* The checks of claim_fees_from_position, in the order of the code.
claim_guard_error(base_before, base_after, claimed_quote) ==
    IF ~(base_before = 0) THEN "BaseFeesDetected"
    ELSE IF ~(base_after = base_before) THEN "BaseFeesDetected"
    ELSE IF ~(claimed_quote > 0) THEN "NoFeesToClaim"
    ELSE "Ok"

\* a claim that reports the quote balance instead of its increase
claim_fees_reports_balance(tq, tb, cx) ==
    LET base_before == tb
        base_after == tb + cx.base
        quote_after == tq + cx.quote
    IN  [ err |-> claim_guard_error(base_before, base_after, quote_after),
          claimed |-> quote_after,
          base_before |-> base_before,
          base_after |-> base_after,
          tq |-> quote_after,
          tb |-> base_after ]

\* cx is what the external claim does to the two treasuries.
claim_fees_from_position(tq, tb, cx) ==
    LET base_before == tb
        quote_before == tq
        base_after == tb + cx.base
        quote_after == tq + cx.quote
        claimed_quote == saturating_sub(quote_after, quote_before)
    IN  [ err |-> claim_guard_error(base_before, base_after, claimed_quote),
          claimed |-> claimed_quote,
          base_before |-> base_before,
          base_after |-> base_after,
          tq |-> quote_after,
          tb |-> base_after ]

\* total_locked of calculate_investor_payouts; roster[i] is the locked
\* amount read from the i-th stream account
RECURSIVE total_locked_of(_, _)
total_locked_of(roster, n) ==
    IF n = 0 THEN 0 ELSE saturating_add(total_locked_of(roster, n - 1), roster[n])

calculate_investor_payouts(roster) ==
    [ total_locked |-> total_locked_of(roster, Len(roster)),
      payouts |-> roster ]

f_locked_bps(total_locked, total_investor_allocation) ==
    IF total_investor_allocation > 0
    THEN LET m == checked_mul(total_locked, MAX_BPS)
         IN  IF m = None THEN None ELSE checked_div(m, total_investor_allocation)
    ELSE 0

eligible_investor_share_bps(investor_fee_share_bps, f_locked) ==
    IF investor_fee_share_bps <= f_locked THEN investor_fee_share_bps ELSE f_locked

\* a fee share taken per 100000 instead of per MAX_BPS
investor_fee_quote_per_100000(day_claimed_fees, eligible_bps) ==
    LET m == checked_mul(day_claimed_fees, eligible_bps)
    IN  IF m = None THEN None ELSE checked_div(m, 10 * MAX_BPS)

investor_fee_quote_of(day_claimed_fees, eligible_bps) ==
    LET m == checked_mul(day_claimed_fees, eligible_bps)
    IN  IF m = None THEN None ELSE checked_div(m, MAX_BPS)

payout_amount(fee_quote, locked_amount, total_locked) ==
    IF total_locked = 0 THEN 0
    ELSE checked_div(saturating_mul(fee_quote, locked_amount), total_locked)

RECURSIVE allocated_total_of(_, _)
allocated_total_of(amounts, n) ==
    IF n = 0 THEN 0 ELSE saturating_add(allocated_total_of(amounts, n - 1), amounts[n])

\* a page that drops its rounding remainder
rounding_remainder_dropped(fee_quote, allocated_total) == 0

rounding_remainder_of(fee_quote, allocated_total) ==
    saturating_sub(fee_quote, allocated_total)

\* a dust test that also catches an amount equal to the threshold
is_dust_inclusive(amount, min_payout_lamports) == amount <= min_payout_lamports

is_dust(amount, min_payout_lamports) == amount < min_payout_lamports

\* a cap test that rejects a sum equal to the cap
over_cap_inclusive(sum, cap) == sum >= cap

\* a cap test that lets one unit through
over_cap_by_two(sum, cap) == sum > cap + 1

\* `daily_distributed + amount > cap`, given the sum
over_cap(sum, cap) == sum > cap

\* token::transfer out of the quote treasury: None when the balance is short
token_transfer(balance, amount) ==
    IF amount > balance THEN None ELSE balance - amount

\* The loop "Distribute to investors".  acc carries the fields the loop
\* updates; the first error ends it.
RECURSIVE distribute_loop(_, _, _, _, _, _)
distribute_loop(v, amounts, remaining_len, oc, i, acc) ==
    IF acc.err # "Ok" \/ i > Len(amounts) THEN acc
    ELSE
    LET a == amounts[i]
        line(paid) == [ amount |-> a, before |-> acc.daily_distributed, paid |-> paid ]
        divert ==
            Bind(unchecked_add(acc.carry_over, a, oc), LAMBDA c :
                IF c = None THEN [ acc EXCEPT !.err = "Panic" ]
                ELSE [ acc EXCEPT !.carry_over = c, !.lines = Append(@, line(FALSE)) ])
        pay(sum) ==
            IF 2 * (i - 1) < remaining_len
            THEN Bind(<<token_transfer(acc.tq, a),
                        unchecked_add(acc.total_distributed, a, oc)>>, LAMBDA t :
                     IF t[1] = None THEN [ acc EXCEPT !.err = "InsufficientFunds" ]
                     ELSE IF t[2] = None \/ sum = None THEN [ acc EXCEPT !.err = "Panic" ]
                     ELSE [ acc EXCEPT !.tq = t[1],
                                       !.total_distributed = t[2],
                                       !.daily_distributed = sum,
                                       !.lines = Append(@, line(TRUE)) ])
            ELSE [ acc EXCEPT !.lines = Append(@, line(FALSE)) ]
        step ==
            IF is_dust(a, v.min_payout_lamports) THEN divert
            ELSE Bind(unchecked_add(acc.daily_distributed, a, oc), LAMBDA sum :
                 IF v.daily_cap_lamports # NoCap
                 THEN IF sum = None THEN [ acc EXCEPT !.err = "Panic" ]
                      ELSE IF over_cap(sum, v.daily_cap_lamports[1]) THEN divert
                      ELSE pay(sum)
                 ELSE pay(sum))
    IN  Bind(step, LAMBDA next : distribute_loop(v, amounts, remaining_len, oc, i + 1, next))

\* account validation that does not ask for the fee position
distribute_accounts_no_position_check(v, tmint) ==
    IF ~v.is_initialized THEN "AccountNotInitialized"
    ELSE IF ~(tmint = v.quote_mint) THEN "ConstraintRaw"
    ELSE "Ok"

\* Account validation of the DistributeFees context (the #[account] constraints).
distribute_accounts_error(v, tmint) ==
    IF ~v.is_initialized THEN "AccountNotInitialized"
    ELSE IF ~v.position_initialized THEN "ConstraintRaw"
    ELSE IF ~(tmint = v.quote_mint) THEN "ConstraintRaw"
    ELSE "Ok"

\* "Check if we can start a new distribution day": the page == 0 block.
\* Returns the state after the block and what the claim observed.
page_zero_block(d, tq, tb, current_ts, page, cx) ==
    LET same == [ err |-> "Ok", d |-> d, tq |-> tq, tb |-> tb, started |-> FALSE,
                  claim_ran |-> FALSE, base_before |-> 0, base_after |-> 0,
                  quote_delta |-> 0 ]
    IN  IF page = 0
        THEN IF ~can_distribute(d, current_ts)
             THEN [ same EXCEPT !.err = "DistributionWindowNotReached" ]
             ELSE LET d1 == start_new_day(d, current_ts)
                      c == claim_fees_from_position(tq, tb, cx)
                  IN  [ err |-> c.err,
                        d |-> [ d1 EXCEPT !.day_claimed_fees = c.claimed ],
                        tq |-> c.tq,
                        tb |-> c.tb,
                        started |-> TRUE,
                        claim_ran |-> TRUE,
                        base_before |-> c.base_before,
                        base_after |-> c.base_after,
                        quote_delta |-> c.tq - tq ]
        ELSE same

\* a close that also clears the day's claim
close_or_advance_clears_claim(d, tq, oc, is_final_page) ==
    IF is_final_page
    THEN LET creator_payout == saturating_sub(d.day_claimed_fees, d.day_investor_total)
             t == IF creator_payout > 0 THEN token_transfer(tq, creator_payout) ELSE tq
         IN  [ err |-> IF t = None THEN "InsufficientFunds" ELSE "Ok",
               d |-> [ d EXCEPT !.day_complete = TRUE, !.day_claimed_fees = 0 ],
               tq |-> t,
               creator_payout |-> creator_payout,
               closed |-> TRUE ]
    ELSE Bind(unchecked_add_u32(d.current_page, 1, oc), LAMBDA next_page :
         [ err |-> IF next_page = None THEN "Panic" ELSE "Ok",
           d |-> [ d EXCEPT !.current_page = IF next_page = None THEN @ ELSE next_page,
                            !.page_cursor = saturating_add(@, 1),
                            !.pages_processed = saturating_add(@, 1) ],
           tq |-> tq,
           creator_payout |-> 0,
           closed |-> FALSE ])

\* "If final page, distribute remainder to creator", else advance the page.
close_or_advance(d, tq, oc, is_final_page) ==
    IF is_final_page
    THEN LET creator_payout == saturating_sub(d.day_claimed_fees, d.day_investor_total)
             t == IF creator_payout > 0 THEN token_transfer(tq, creator_payout) ELSE tq
         IN  [ err |-> IF t = None THEN "InsufficientFunds" ELSE "Ok",
               d |-> [ d EXCEPT !.day_complete = TRUE ],
               tq |-> t,
               creator_payout |-> creator_payout,
               closed |-> TRUE ]
    ELSE Bind(unchecked_add_u32(d.current_page, 1, oc), LAMBDA next_page :
         [ err |-> IF next_page = None THEN "Panic" ELSE "Ok",
           d |-> [ d EXCEPT !.current_page = IF next_page = None THEN @ ELSE next_page,
                            !.page_cursor = saturating_add(@, 1),
                            !.pages_processed = saturating_add(@, 1) ],
           tq |-> tq,
           creator_payout |-> 0,
           closed |-> FALSE ])

\* The payouts of one page, from "Calculate investor distributions" to
\* mark_page_done.  d, tq are the state after the page == 0 block.
process_page(v, d, tq, oc, page, is_final_page, roster) ==
    Bind(calculate_investor_payouts(roster), LAMBDA calc :
    Bind(f_locked_bps(calc.total_locked, v.total_investor_allocation), LAMBDA f_locked :
    Bind(IF f_locked = None THEN None
         ELSE investor_fee_quote_of(d.day_claimed_fees,
                  eligible_investor_share_bps(v.investor_fee_share_bps, f_locked)),
         LAMBDA fee_quote :
    Bind(IF fee_quote = None THEN 0 ELSE fee_quote, LAMBDA q :
    Bind([ i \in 1..Len(calc.payouts) |->
             payout_amount(q, calc.payouts[i], calc.total_locked) ], LAMBDA amounts :
    Bind(rounding_remainder_of(q, allocated_total_of(amounts, Len(amounts))),
         LAMBDA rounding_remainder :
    Bind(distribute_loop(v, amounts, 2 * Len(roster), oc, 1,
             [ err |-> "Ok",
               carry_over |-> saturating_add(d.carry_over, rounding_remainder),
               daily_distributed |-> d.daily_distributed,
               total_distributed |-> 0,
               tq |-> tq,
               lines |-> <<>> ]), LAMBDA acc :
    Bind(unchecked_add(d.day_investor_total, acc.total_distributed, oc), LAMBDA dit :
    Bind(close_or_advance([ d EXCEPT !.carry_over = acc.carry_over,
                                     !.daily_distributed = acc.daily_distributed,
                                     !.day_investor_total = IF dit = None THEN 0 ELSE dit ],
                          acc.tq, oc, is_final_page), LAMBDA fin :
        [ err |-> IF fee_quote = None THEN "MathOverflow"
                  ELSE IF acc.err # "Ok" THEN acc.err
                  ELSE IF dit = None THEN "Panic"
                  ELSE fin.err,
          d |-> mark_page_done(fin.d, page),
          tq |-> fin.tq,
          fee_quote |-> q,
          rounding_remainder |-> rounding_remainder,
          lines |-> acc.lines,
          creator_payout |-> fin.creator_payout,
          closed |-> fin.closed ])))))))))

\* a page validation that lets a caller skip ahead
page_is_current_or_later(page, d) == page >= d.current_page

\* "Validate page number"
page_is_current(page, d) == page = d.current_page

\* an instruction whose rejected claim leaves the new day started
distribute_fees_keeps_started_day(v, d, tq, tb, tmint, current_ts, oc, page, is_final_page, roster, cx) ==
    LET call == [ NoCall EXCEPT !.op = "distribute_fees", !.page = page,
                                !.is_final = is_final_page ]
        accts == distribute_accounts_error(v, tmint)
        z == page_zero_block(d, tq, tb, current_ts, page, cx)
        seen == [ call EXCEPT !.claim_ran = z.claim_ran,
                              !.base_before = z.base_before,
                              !.base_after = z.base_after,
                              !.quote_delta = z.quote_delta ]
        pg == process_page(v, z.d, z.tq, oc, page, is_final_page, roster)
        keep == [ d |-> d, tq |-> tq, tb |-> tb ]
    IN  IF accts # "Ok"
        THEN keep @@ [ info |-> [ call EXCEPT !.result = accts ] ]
        ELSE IF z.err # "Ok"
        THEN [ d |-> z.d, tq |-> tq, tb |-> tb, info |-> [ seen EXCEPT !.result = z.err ] ]
        ELSE IF ~page_is_current(page, z.d)
        THEN keep @@ [ info |-> [ seen EXCEPT !.result = "InvalidPageNumber" ] ]
        ELSE IF is_page_done(z.d, page)
        THEN [ d |-> z.d, tq |-> z.tq, tb |-> z.tb,
               info |-> [ seen EXCEPT !.started = z.started ] ]
        ELSE IF pg.err # "Ok"
        THEN keep @@ [ info |-> [ seen EXCEPT !.result = pg.err ] ]
        ELSE [ d |-> pg.d, tq |-> pg.tq, tb |-> z.tb,
               info |-> [ seen EXCEPT !.started = z.started,
                                      !.effects = TRUE,
                                      !.fee_quote = pg.fee_quote,
                                      !.rounding_remainder = pg.rounding_remainder,
                                      !.lines = pg.lines,
                                      !.creator_payout = pg.creator_payout,
                                      !.closed = pg.closed ] ]

\* an instruction whose failed page leaves what it did before the failure
distribute_fees_keeps_partial_page(v, d, tq, tb, tmint, current_ts, oc, page, is_final_page, roster, cx) ==
    LET call == [ NoCall EXCEPT !.op = "distribute_fees", !.page = page,
                                !.is_final = is_final_page ]
        accts == distribute_accounts_error(v, tmint)
        z == page_zero_block(d, tq, tb, current_ts, page, cx)
        seen == [ call EXCEPT !.claim_ran = z.claim_ran,
                              !.base_before = z.base_before,
                              !.base_after = z.base_after,
                              !.quote_delta = z.quote_delta ]
        pg == process_page(v, z.d, z.tq, oc, page, is_final_page, roster)
        keep == [ d |-> d, tq |-> tq, tb |-> tb ]
    IN  IF accts # "Ok"
        THEN keep @@ [ info |-> [ call EXCEPT !.result = accts ] ]
        ELSE IF z.err # "Ok"
        THEN keep @@ [ info |-> [ seen EXCEPT !.result = z.err ] ]
        ELSE IF ~page_is_current(page, z.d)
        THEN keep @@ [ info |-> [ seen EXCEPT !.result = "InvalidPageNumber" ] ]
        ELSE IF is_page_done(z.d, page)
        THEN [ d |-> z.d, tq |-> z.tq, tb |-> z.tb,
               info |-> [ seen EXCEPT !.started = z.started ] ]
        ELSE IF pg.err # "Ok"
        THEN [ d |-> pg.d, tq |-> pg.tq, tb |-> z.tb,
               info |-> [ seen EXCEPT !.result = pg.err ] ]
        ELSE [ d |-> pg.d, tq |-> pg.tq, tb |-> z.tb,
               info |-> [ seen EXCEPT !.started = z.started,
                                      !.effects = TRUE,
                                      !.fee_quote = pg.fee_quote,
                                      !.rounding_remainder = pg.rounding_remainder,
                                      !.lines = pg.lines,
                                      !.creator_payout = pg.creator_payout,
                                      !.closed = pg.closed ] ]

\* The instruction: its result, the state it commits when the result is Ok,
\* and its observation.
distribute_fees(v, d, tq, tb, tmint, current_ts, oc, page, is_final_page, roster, cx) ==
    LET call == [ NoCall EXCEPT !.op = "distribute_fees", !.page = page,
                                !.is_final = is_final_page ]
        accts == distribute_accounts_error(v, tmint)
        z == page_zero_block(d, tq, tb, current_ts, page, cx)
        seen == [ call EXCEPT !.claim_ran = z.claim_ran,
                              !.base_before = z.base_before,
                              !.base_after = z.base_after,
                              !.quote_delta = z.quote_delta ]
        pg == process_page(v, z.d, z.tq, oc, page, is_final_page, roster)
        keep == [ d |-> d, tq |-> tq, tb |-> tb ]
    IN  IF accts # "Ok"
        THEN keep @@ [ info |-> [ call EXCEPT !.result = accts ] ]
        ELSE IF z.err # "Ok"
        THEN keep @@ [ info |-> [ seen EXCEPT !.result = z.err ] ]
        ELSE IF ~page_is_current(page, z.d)
        THEN keep @@ [ info |-> [ seen EXCEPT !.result = "InvalidPageNumber" ] ]
        ELSE IF is_page_done(z.d, page)
        THEN [ d |-> z.d, tq |-> z.tq, tb |-> z.tb,
               info |-> [ seen EXCEPT !.started = z.started ] ]
        ELSE IF pg.err # "Ok"
        THEN keep @@ [ info |-> [ seen EXCEPT !.result = pg.err ] ]
        ELSE [ d |-> pg.d, tq |-> pg.tq, tb |-> z.tb,
               info |-> [ seen EXCEPT !.started = z.started,
                                      !.effects = TRUE,
                                      !.fee_quote = pg.fee_quote,
                                      !.rounding_remainder = pg.rounding_remainder,
                                      !.lines = pg.lines,
                                      !.creator_payout = pg.creator_payout,
                                      !.closed = pg.closed ] ]

\* ------------------------------------------------------------------------
\* dlmm_integration.rs
\* ------------------------------------------------------------------------
\* Result: <<error>> or <<"Ok", tick_lower, tick_upper>>
calculate_quote_only_ticks(pool, quote_mint) ==
    LET is_quote_x == pool.token_x_mint = quote_mint
        is_quote_y == pool.token_y_mint = quote_mint
        current_tick == pool.active_id
        tick_spacing == pool.bin_step
        tick_upper_x == i32_saturating_sub(current_tick, tick_spacing)
        tick_lower_x == i32_saturating_sub(tick_upper_x, tick_spacing * RANGE_STEPS)
        tick_lower_y == i32_saturating_add(current_tick, tick_spacing)
        tick_upper_y == i32_saturating_add(tick_lower_y, tick_spacing * RANGE_STEPS)
        tick_lower == IF is_quote_x THEN tick_lower_x ELSE tick_lower_y
        tick_upper == IF is_quote_x THEN tick_upper_x ELSE tick_upper_y
    IN  IF ~(is_quote_x \/ is_quote_y) THEN <<"InvalidQuoteMint">>
        ELSE IF ~(tick_lower >= pool.min_bin_id) THEN <<"InvalidPoolConfiguration">>
        ELSE IF ~(tick_upper <= pool.max_bin_id) THEN <<"InvalidPoolConfiguration">>
        ELSE <<"Ok", tick_lower, tick_upper>>

\* an extraction that adds the two sides up and checks nothing
extract_quote_fees_both_sides(claimed_x, claimed_y, pool, quote_mint) ==
    <<"Ok", claimed_x + claimed_y>>

extract_quote_fees(claimed_x, claimed_y, pool, quote_mint) ==
    LET is_quote_x == pool.token_x_mint = quote_mint
    IN  IF is_quote_x
        THEN IF ~(claimed_y = 0) THEN <<"BaseFeesNotAllowed">> ELSE <<"Ok", claimed_x>>
        ELSE IF ~(claimed_x = 0) THEN <<"BaseFeesNotAllowed">> ELSE <<"Ok", claimed_y>>

\* pool.valid: the account holds a well-formed LbPair
deserialize_lb_pair(pool) ==
    IF pool.valid THEN "Ok" ELSE "InvalidPoolConfiguration"

\* ------------------------------------------------------------------------
\* initialize_vault, initialize_fee_position, update_investor_data
\* ------------------------------------------------------------------------
\* an initialize_vault that accepts any investor_fee_share_bps
initialize_vault_any_bps(v, creator_wallet, investor_fee_share_bps, min_payout_lamports, daily_cap_lamports, quote_mint) ==
    IF v.is_initialized THEN [ err |-> "AccountAlreadyInUse", v |-> v ]
    ELSE [ err |-> "Ok",
           v |-> [ v EXCEPT !.creator_wallet = creator_wallet,
                            !.quote_mint = quote_mint,
                            !.investor_fee_share_bps = investor_fee_share_bps,
                            !.min_payout_lamports = min_payout_lamports,
                            !.daily_cap_lamports = daily_cap_lamports,
                            !.is_initialized = TRUE,
                            !.position_initialized = FALSE ] ]

\* `init` refuses an account that exists; the vault account exists exactly
\* when is_initialized is set.
initialize_vault(v, creator_wallet, investor_fee_share_bps, min_payout_lamports, daily_cap_lamports, quote_mint) ==
    IF v.is_initialized THEN [ err |-> "AccountAlreadyInUse", v |-> v ]
    ELSE IF ~(investor_fee_share_bps <= MAX_BPS) THEN [ err |-> "InvalidFeeShareBps", v |-> v ]
    ELSE IF ~(~v.is_initialized) THEN [ err |-> "VaultAlreadyInitialized", v |-> v ]
    ELSE [ err |-> "Ok",
           v |-> [ v EXCEPT !.creator_wallet = creator_wallet,
                            !.quote_mint = quote_mint,
                            !.investor_fee_share_bps = investor_fee_share_bps,
                            !.min_payout_lamports = min_payout_lamports,
                            !.daily_cap_lamports = daily_cap_lamports,
                            !.is_initialized = TRUE,
                            !.position_initialized = FALSE ] ]

initialize_fee_position(v, pool, token_x_mint, token_y_mint, quote_mint, fee_position) ==
    LET is_x_quote == token_x_mint = quote_mint
        is_y_quote == token_y_mint = quote_mint
        ticks == calculate_quote_only_ticks(pool, quote_mint)
    IN  IF ~v.is_initialized THEN [ err |-> "AccountNotInitialized", v |-> v ]
        ELSE IF ~(~v.position_initialized) THEN [ err |-> "VaultAlreadyInitialized", v |-> v ]
        ELSE IF ~(is_x_quote \/ is_y_quote) THEN [ err |-> "InvalidQuoteMint", v |-> v ]
        ELSE IF deserialize_lb_pair(pool) # "Ok" THEN [ err |-> deserialize_lb_pair(pool), v |-> v ]
        ELSE IF ticks[1] # "Ok" THEN [ err |-> ticks[1], v |-> v ]
        ELSE [ err |-> "Ok",
               v |-> [ v EXCEPT !.pool = pool.key,
                                !.fee_position = fee_position,
                                !.position_initialized = TRUE,
                                !.quote_mint = quote_mint ] ]

\* an update that adds to the allocation instead of replacing it
update_investor_data_adds(v, total_allocation) ==
    IF ~v.is_initialized THEN [ err |-> "AccountNotInitialized", v |-> v ]
    ELSE [ err |-> "Ok", v |-> [ v EXCEPT !.total_investor_allocation = @ + total_allocation ] ]

update_investor_data(v, total_allocation) ==
    IF ~v.is_initialized THEN [ err |-> "AccountNotInitialized", v |-> v ]
    ELSE [ err |-> "Ok", v |-> [ v EXCEPT !.total_investor_allocation = total_allocation ] ]

\* ------------------------------------------------------------------------
\* Inputs
\* ------------------------------------------------------------------------
Mints == { "quote", "base" }
\* investor_fee_share_bps, min_payout_lamports, daily_cap_lamports
VaultConfigs == { <<10000, 0, NoCap>>, <<5000, 0, NoCap>>, <<5000, 2, SomeCap(3)>>,
                  <<10001, 0, NoCap>> }
Allocations == { 4 }
Rosters == { <<>>, <<1, 2>>, <<2, 2>> }
\* amounts of base tokens sent to the base treasury from outside
BaseDeposits == { 1 }
ClaimEffects == { [ quote |-> 10, base |-> 0 ], [ quote |-> 0, base |-> 0 ],
                  [ quote |-> 10, base |-> 1 ] }
Pages == 0..MaxPage

Pool(x, y, lo, hi) ==
    [ valid |-> TRUE, key |-> "pool", token_x_mint |-> x, token_y_mint |-> y,
      active_id |-> 1000, bin_step |-> 10, min_bin_id |-> lo, max_bin_id |-> hi ]
Pools == { Pool("quote", "base", -10000, 20000), Pool("base", "quote", -10000, 20000),
           Pool("quote", "base", 0, 20000) }

\* ------------------------------------------------------------------------
\* Actions
\* ------------------------------------------------------------------------
Init ==
    /\ vault = VaultDefault
    /\ ds = DistributionStateDefault
    /\ treasury_quote = 0
    /\ treasury_base = 0
    /\ treasury_mint = ""
    /\ now = SECONDS_PER_DAY
    /\ last = NoCall
    /\ applied = <<>>

Observed(op, result) == [ NoCall EXCEPT !.op = op, !.result = result ]

\* `authority: Signer`: any key that signs the transaction
Signers == { "creator", "stranger" }

InitializeVault(creator_wallet, bps, min_payout, cap, quote_mint) ==
    LET r == initialize_vault(vault, creator_wallet, bps, min_payout, cap, quote_mint)
    IN  /\ vault' = r.v
        /\ ds' = IF r.err = "Ok"
                 THEN [ ds EXCEPT !.last_distribution_ts = 0, !.current_day = 0 ]
                 ELSE ds
        /\ treasury_mint' = IF r.err = "Ok" THEN quote_mint ELSE treasury_mint
        /\ last' = Observed("initialize_vault", r.err)
        /\ UNCHANGED <<treasury_quote, treasury_base, now, applied>>

InitializeFeePosition(authority, pool, token_x_mint, token_y_mint, quote_mint) ==
    LET r == initialize_fee_position(vault, pool, token_x_mint, token_y_mint,
                                     quote_mint, "position")
    IN  /\ vault' = r.v
        /\ last' = [ Observed("initialize_fee_position", r.err) EXCEPT !.authority = authority ]
        /\ UNCHANGED <<ds, treasury_quote, treasury_base, treasury_mint, now, applied>>

UpdateInvestorData(authority, total_allocation) ==
    LET r == update_investor_data(vault, total_allocation)
    IN  /\ vault' = r.v
        /\ last' = [ Observed("update_investor_data", r.err) EXCEPT !.authority = authority ]
        /\ UNCHANGED <<ds, treasury_quote, treasury_base, treasury_mint, now, applied>>

\* An unchecked u64 overflow panics in a build with overflow checks and wraps
\* in a build without them: both outcomes are possible.
DistributeFees(page, is_final_page, roster, cx) ==
    LET run(oc) == distribute_fees(vault, ds, treasury_quote, treasury_base,
                                   treasury_mint, now, oc, page, is_final_page,
                                   roster, cx)
        outcomes == IF run(TRUE).info.result = "Panic"
                    THEN { run(TRUE), run(FALSE) } ELSE { run(TRUE) }
    IN  \E r \in outcomes :
        /\ ds' = r.d
        /\ treasury_quote' = r.tq
        /\ treasury_base' = r.tb
        /\ last' = r.info
        /\ applied' = IF ~r.info.effects THEN applied
                      ELSE IF r.info.started THEN <<page>>
                      ELSE Append(applied, page)
        /\ UNCHANGED <<vault, treasury_mint, now>>

\* the clock
Tick ==
    /\ now + TickStep <= SECONDS_PER_DAY + MaxTicks * TickStep
    /\ now' = now + TickStep
    /\ last' = Observed("tick", "Ok")
    /\ UNCHANGED <<vault, ds, treasury_quote, treasury_base, treasury_mint, applied>>

\* anyone may send base tokens to the base treasury once it exists
DepositBase(amount) ==
    /\ vault.is_initialized
    /\ treasury_base = 0
    /\ treasury_base' = treasury_base + amount
    /\ last' = Observed("deposit_base", "Ok")
    /\ UNCHANGED <<vault, ds, treasury_quote, treasury_mint, now, applied>>

DoDepositBase ==
    \E amount \in BaseDeposits : DepositBase(amount)

DoInitializeVault ==
    \E c \in VaultConfigs : InitializeVault("creator", c[1], c[2], c[3], "quote")

DoInitializeFeePosition ==
    \E authority \in Signers, pool \in Pools, qm \in Mints :
        InitializeFeePosition(authority, pool, pool.token_x_mint, pool.token_y_mint, qm)

DoUpdateInvestorData ==
    \E authority \in Signers, a \in Allocations : UpdateInvestorData(authority, a)

DoDistributeFees ==
    \E page \in Pages, fin \in BOOLEAN, roster \in Rosters, cx \in ClaimEffects :
        /\ (page = 0 => ds.current_day < MaxDay)
        /\ DistributeFees(page, fin, roster, cx)

Next ==
    \/ DoInitializeVault
    \/ DoInitializeFeePosition
    \/ DoUpdateInvestorData
    \/ DoDistributeFees
    \/ Tick
    \/ DoDepositBase

Spec == Init /\ [][Next]_vars

\* ------------------------------------------------------------------------
\* One long day: pages up to MaxPageLong, past the 128 bits of
\* pages_done_mask.  The crank submits page 0 or a page next to current_page,
\* every roster is empty and the clock stands still.
\* ------------------------------------------------------------------------
LongPages == { p \in 0..MaxPageLong :
                 p = 0 \/ (p + 1 >= ds.current_page /\ p <= ds.current_page + 1) }

LongInitializeVault == InitializeVault("creator", 10000, 0, NoCap, "quote")

LongInitializeFeePosition ==
    InitializeFeePosition("creator", Pool("quote", "base", -10000, 20000),
                          "quote", "base", "quote")

\* the allocation is set before the first day
LongAllocations == { 4 }
LongUpdateInvestorData ==
    \E a \in LongAllocations :
        /\ ds.current_day = 0
        /\ UpdateInvestorData("creator", a)

\* pages past the mask may hold one investor
LongRosters(page) == IF page >= MASK_BITS THEN { <<>>, <<1>> } ELSE { <<>> }

\* at most three commits more than there are page indices
LongDistributeFees ==
    \E page \in LongPages, fin \in BOOLEAN :
        \E roster \in LongRosters(page) :
            /\ Len(applied) < MaxPageLong + 4
            /\ DistributeFees(page, fin, roster, [ quote |-> 10, base |-> 0 ])

\* anyone may send quote tokens to the quote treasury; here once it has been
\* emptied by a closed day
LongDepositQuote ==
    /\ ds.day_complete
    /\ treasury_quote = 0
    /\ treasury_quote' = treasury_quote + 10
    /\ last' = Observed("deposit_quote", "Ok")
    /\ UNCHANGED <<vault, ds, treasury_base, treasury_mint, now, applied>>

NextLong ==
    \/ LongInitializeVault
    \/ LongInitializeFeePosition
    \/ LongUpdateInvestorData
    \/ LongDistributeFees
    \/ LongDepositQuote

SpecLong == Init /\ [][NextLong]_vars

\* ------------------------------------------------------------------------
\* Large amounts: pages of one investor whose locked amount and the day's
\* fees are large enough for investor_fee_quote * locked_amount to pass
\* U64_MAX, or for total_locked * MAX_BPS to pass it.
\* ------------------------------------------------------------------------
WideAllocations == { 20000 }
\* locked amount of the page's only investor
WideRosters == { <<20000>>, <<10000>>, <<30000>> }
WideClaimEffects == { [ quote |-> 20000, base |-> 0 ], [ quote |-> 10, base |-> 0 ] }

WideInitializeVault == InitializeVault("creator", 10000, 0, NoCap, "quote")

WideInitializeFeePosition ==
    InitializeFeePosition("creator", Pool("quote", "base", -10000, 20000),
                          "quote", "base", "quote")

WideUpdateInvestorData ==
    \E a \in WideAllocations : UpdateInvestorData("creator", a)

WideDistributeFees ==
    \E page \in Pages, fin \in BOOLEAN, roster \in WideRosters, cx \in WideClaimEffects :
        /\ (page = 0 => ds.current_day < MaxDay)
        /\ DistributeFees(page, fin, roster, cx)

NextWide ==
    \/ WideInitializeVault
    \/ WideInitializeFeePosition
    \/ WideUpdateInvestorData
    \/ WideDistributeFees
    \/ Tick

SpecWide == Init /\ [][NextWide]_vars

\* ------------------------------------------------------------------------
\* The reference setup of the payout arithmetic, in units of 100 lamports:
\* Y0 = 10000 (1,000,000), share 8000 bps, claimed fees 1000 (100,000),
\* locked balances 3000 and 2000 (300,000 and 200,000), and dust thresholds
\* 0, 35 (3500) and 350 (35,000).  Every amount of the setup is a multiple
\* of 100 and every division of it is exact.  The run records the roster.
\* One vault has a daily cap of 200, which the second amount fits exactly.
\* ------------------------------------------------------------------------
ScenarioConfigs == { <<8000, 0, NoCap>>, <<8000, 35, NoCap>>, <<8000, 350, NoCap>>,
                     <<8000, 35, SomeCap(200)>> }
ScenarioAllocations == { 10000 }
ScenarioRosters == { <<3000, 2000>>, <<7, 3000>>, <<>> }
ScenarioClaimEffects == { [ quote |-> 1000, base |-> 0 ] }

ScenarioInitializeVault ==
    \E c \in ScenarioConfigs : InitializeVault("creator", c[1], c[2], c[3], "quote")

ScenarioInitializeFeePosition ==
    InitializeFeePosition("creator", Pool("quote", "base", -10000, 20000),
                          "quote", "base", "quote")

ScenarioUpdateInvestorData ==
    \E a \in ScenarioAllocations : UpdateInvestorData("creator", a)

ScenarioDistributeFees ==
    \E page \in Pages, fin \in BOOLEAN, roster \in ScenarioRosters,
       cx \in ScenarioClaimEffects :
        LET r == distribute_fees(vault, ds, treasury_quote, treasury_base,
                                 treasury_mint, now, TRUE, page, fin, roster, cx)
        IN  /\ (page = 0 => ds.current_day < MaxDay)
            /\ r.info.result # "Panic"
            /\ ds' = r.d
            /\ treasury_quote' = r.tq
            /\ treasury_base' = r.tb
            /\ last' = [ r.info EXCEPT !.roster = roster ]
            /\ applied' = IF ~r.info.effects THEN applied
                          ELSE IF r.info.started THEN <<page>>
                          ELSE Append(applied, page)
            /\ UNCHANGED <<vault, treasury_mint, now>>

NextScenario ==
    \/ ScenarioInitializeVault
    \/ ScenarioInitializeFeePosition
    \/ ScenarioUpdateInvestorData
    \/ ScenarioDistributeFees
    \/ Tick

SpecScenario == Init /\ [][NextScenario]_vars

\* ------------------------------------------------------------------------
\* One day of many pages whose amounts all stay below the dust threshold:
\* the largest fee claim whose share still multiplies without overflow, all
\* of it for investors, every page non-final and in order.
\* ------------------------------------------------------------------------
DustConfigs == { <<MAX_BPS, U64_MAX, NoCap>> }
DustAllocations == { 1 }
DustRosters == { <<1>> }
DustClaimEffects == { [ quote |-> U64_MAX \div MAX_BPS, base |-> 0 ] }

DustInitializeVault ==
    \E c \in DustConfigs : InitializeVault("creator", c[1], c[2], c[3], "quote")

DustInitializeFeePosition ==
    InitializeFeePosition("creator", Pool("quote", "base", -10000, 20000),
                          "quote", "base", "quote")

DustUpdateInvestorData ==
    \E a \in DustAllocations :
        /\ ds.current_day = 0
        /\ UpdateInvestorData("creator", a)

\* the list of committed pages is not kept in this run
DustDistributeFees ==
    \E roster \in DustRosters, cx \in DustClaimEffects, oc \in BOOLEAN :
        LET r == distribute_fees(vault, ds, treasury_quote, treasury_base,
                                 treasury_mint, now, oc, ds.current_page, FALSE,
                                 roster, cx)
        IN  /\ ds.current_page < MaxPageDust
            /\ ds' = r.d
            /\ treasury_quote' = r.tq
            /\ treasury_base' = r.tb
            /\ last' = r.info
            /\ UNCHANGED <<vault, treasury_mint, now, applied>>

NextDust ==
    \/ DustInitializeVault
    \/ DustInitializeFeePosition
    \/ DustUpdateInvestorData
    \/ DustDistributeFees

SpecDust == Init /\ [][NextDust]_vars

\* ------------------------------------------------------------------------
\* The helpers of dlmm_integration.rs called on their own, on pools and
\* claimed amounts drawn from small sets; `last` records each call.
\* ------------------------------------------------------------------------
LbPair(x, y, active_id, bin_step, lo, hi) ==
    [ valid |-> TRUE, key |-> "pool", token_x_mint |-> x, token_y_mint |-> y,
      active_id |-> active_id, bin_step |-> bin_step, min_bin_id |-> lo, max_bin_id |-> hi ]
ActiveIds == { I32_MIN, -5, 0, 1000, I32_MAX }
BinSteps == { 0, 1, 25 }
LbPairs ==
    { LbPair(m[1], m[2], a, b, lo, hi) :
        m \in { <<"quote", "base">>, <<"base", "quote">> },
        a \in ActiveIds, b \in BinSteps,
        lo \in { I32_MIN, -10000 }, hi \in { 20000, I32_MAX } }
QuoteMints == { "quote", "base", "other" }
ClaimedAmounts == { 0, 7, U64_MAX }
ClaimedPools == { LbPair("quote", "base", 1000, 25, -10000, 20000),
                  LbPair("base", "quote", 1000, 25, -10000, 20000) }

CallCalculateQuoteOnlyTicks ==
    \E pool \in LbPairs, quote_mint \in QuoteMints :
        LET r == calculate_quote_only_ticks(pool, quote_mint)
        IN  /\ last' = [ Observed("calculate_quote_only_ticks", r[1])
                           EXCEPT !.args = <<pool, quote_mint>>, !.ret = r ]
            /\ UNCHANGED <<vault, ds, treasury_quote, treasury_base, treasury_mint,
                           now, applied>>

CallExtractQuoteFees ==
    \E claimed_x \in ClaimedAmounts, claimed_y \in ClaimedAmounts,
       pool \in ClaimedPools, quote_mint \in QuoteMints :
        LET r == extract_quote_fees(claimed_x, claimed_y, pool, quote_mint)
        IN  /\ last' = [ Observed("extract_quote_fees", r[1])
                           EXCEPT !.args = <<claimed_x, claimed_y, pool, quote_mint>>,
                                  !.ret = r ]
            /\ UNCHANGED <<vault, ds, treasury_quote, treasury_base, treasury_mint,
                           now, applied>>

NextIntegration ==
    \/ CallCalculateQuoteOnlyTicks
    \/ CallExtractQuoteFees

SpecIntegration == Init /\ [][NextIntegration]_vars

\* ------------------------------------------------------------------------
\* Properties
\* ------------------------------------------------------------------------
PagesOf(seq) == { seq[i] : i \in 1..Len(seq) }

RECURSIVE SumLines(_, _, _)
SumLines(lines, paid, n) ==
    IF n = 0 THEN 0
    ELSE SumLines(lines, paid, n - 1) + (IF lines[n].paid = paid THEN lines[n].amount ELSE 0)

\* what the call moved to investors, and what it kept back (dust, cap)
Transferred(c) == SumLines(c.lines, TRUE, Len(c.lines))
Diverted(c) == SumLines(c.lines, FALSE, Len(c.lines))

\* the step commits nothing
NothingCommitted ==
    /\ ds' = ds
    /\ vault' = vault
    /\ treasury_quote' = treasury_quote
    /\ treasury_base' = treasury_base
    /\ applied' = applied

AccountsValid == distribute_accounts_error(vault, treasury_mint) = "Ok"

\* C1: a distribute_fees call for a page that has already committed in the
\* current day, and that does not itself start a new day, transfers nothing
\* and changes no field of DistributionState.
C1_ReplayChangesNothing ==
    [][ ( /\ last'.op = "distribute_fees"
          /\ last'.page \in PagesOf(applied)
          /\ ~last'.started )
        => ( ~last'.effects /\ ds' = ds /\ treasury_quote' = treasury_quote ) ]_vars

\* C2: a distribute_fees call for a page marked done in pages_done_mask
\* returns Ok, and unless it starts a new day it has no effect.
C2_DonePageReturnsOk ==
    [][ ( last'.op = "distribute_fees" /\ is_page_done(ds, last'.page) )
        => ( /\ last'.result = "Ok"
             /\ (~last'.started => ~last'.effects /\ NothingCommitted) ) ]_vars

\* C3: a page-0 call before last_distribution_ts + 86400 fails with
\* DistributionWindowNotReached and commits nothing, whatever the day's state.
C3_GateHolds ==
    [][ ( /\ last'.op = "distribute_fees"
          /\ last'.page = 0
          /\ now < ds.last_distribution_ts + SECONDS_PER_DAY )
        => ( last'.result = "DistributionWindowNotReached" /\ NothingCommitted ) ]_vars

\* C3 witness: the gate rejected page 0 of a later attempt while the day's
\* page 0 was already done.
C3_Witness ==
    /\ last.op = "distribute_fees"
    /\ last.page = 0
    /\ last.result = "DistributionWindowNotReached"
    /\ ds.current_day >= 1
    /\ is_page_done(ds, 0)
    /\ now < ds.last_distribution_ts + SECONDS_PER_DAY

\* C4: a call whose page is neither current_page nor marked done fails with
\* InvalidPageNumber and commits nothing; and when a page's effects are
\* applied, every smaller index was applied before it in the same day and no
\* larger one was.
C4_PageOrder ==
    [][ /\ ( /\ last'.op = "distribute_fees"
             /\ AccountsValid
             /\ last'.page # ds.current_page
             /\ ~is_page_done(ds, last'.page) )
           => ( last'.result = "InvalidPageNumber" /\ NothingCommitted )
        /\ ( last'.op = "distribute_fees" /\ last'.effects )
           => ( /\ \A q \in 0..last'.page : q \in PagesOf(applied')
                /\ \A q \in PagesOf(applied') : q <= last'.page
                /\ (last'.page > 0 => ~last'.started /\ (last'.page - 1) \in PagesOf(applied)) )
      ]_vars

\* C4 witness: page 0 was applied and a call for an index ahead of
\* current_page, not marked done, was rejected.
C4_Witness ==
    /\ last.op = "distribute_fees"
    /\ last.result = "InvalidPageNumber"
    /\ last.page > ds.current_page
    /\ ~is_page_done(ds, last.page)
    /\ applied # <<>>

\* C5: when a final page closes the day,
\* day_investor_total + creator_payout = day_claimed_fees.
C5_DayConservation ==
    ( last.op = "distribute_fees" /\ last.closed )
    => ds.day_investor_total + last.creator_payout = ds.day_claimed_fees

\* C6 as stated: for a processed page, transferred + rounding remainder =
\* investor_fee_quote.
C6_PageConservationOriginal ==
    ( last.op = "distribute_fees" /\ last.effects )
    => Transferred(last) + last.rounding_remainder = last.fee_quote

\* C6 amended: for a processed page, transferred + rounding remainder + the
\* amounts diverted to carry_over (below min_payout or over the cap) =
\* investor_fee_quote, and carry_over grows by the remainder plus the
\* diverted amounts.
C6_PageConservation ==
    [][ ( last'.op = "distribute_fees" /\ last'.effects )
        => ( /\ Transferred(last') + last'.rounding_remainder + Diverted(last')
                  = last'.fee_quote
             /\ ds'.carry_over = ds.carry_over + last'.rounding_remainder + Diverted(last')
             /\ (Diverted(last') = 0
                  => Transferred(last') + last'.rounding_remainder = last'.fee_quote) ) ]_vars

\* C6 witness: a page with a paid investor, a diverted one and a remainder.
C6_Witness ==
    /\ last.op = "distribute_fees"
    /\ last.effects
    /\ Transferred(last) > 0
    /\ Diverted(last) > 0
    /\ last.rounding_remainder > 0

\* C7: with daily_cap_lamports = Some(C), daily_distributed <= C in every
\* committed state, and an amount with daily_distributed + amount > C at its
\* turn is not transferred and goes to carry_over.
C7_CapEnforced ==
    [][ vault'.daily_cap_lamports # NoCap
        => ( /\ ds'.daily_distributed <= vault'.daily_cap_lamports[1]
             /\ ( last'.op = "distribute_fees" /\ last'.effects )
                => ( /\ \A i \in 1..Len(last'.lines) :
                          last'.lines[i].before + last'.lines[i].amount
                              > vault'.daily_cap_lamports[1]
                          => ~last'.lines[i].paid
                     /\ ds'.carry_over = ds.carry_over + last'.rounding_remainder
                                             + Diverted(last') ) ) ]_vars

\* C7 witness: an amount above the dust threshold was kept back by the cap
\* after an earlier investor of the page was paid.
C7_Witness ==
    /\ vault.daily_cap_lamports # NoCap
    /\ last.op = "distribute_fees"
    /\ last.effects
    /\ \E i \in 1..Len(last.lines) :
          /\ last.lines[i].amount >= vault.min_payout_lamports
          /\ last.lines[i].before > 0
          /\ last.lines[i].before + last.lines[i].amount > vault.daily_cap_lamports[1]
          /\ ~last.lines[i].paid

\* C8: day_investor_total <= floor(day_claimed_fees * investor_fee_share_bps / 10000)
C8_ShareCeiling ==
    ds.day_investor_total
        <= (ds.day_claimed_fees * vault.investor_fee_share_bps) \div MAX_BPS

C10_BaseBalanceRejected ==
    [][ ( /\ last'.op = "distribute_fees"
          /\ last'.claim_ran
          /\ treasury_base # 0 )
        => ( last'.result = "BaseFeesDetected" /\ NothingCommitted ) ]_vars

\* C10 witness: the base treasury held tokens, the claim added quote fees
\* and no base fees, and the call was rejected.
C10_Witness ==
    /\ last.op = "distribute_fees"
    /\ last.claim_ran
    /\ last.base_before # 0
    /\ last.base_after = last.base_before
    /\ last.quote_delta > 0
    /\ last.result = "BaseFeesDetected"

C12_FailedClaimStartsNothing ==
    [][ ( /\ last'.op = "distribute_fees"
          /\ last'.result \in { "BaseFeesDetected", "NoFeesToClaim" } )
        => ( /\ last'.page = 0
             /\ ~last'.started
             /\ ds' = ds
             /\ applied' = applied
             /\ can_distribute(ds', now') = can_distribute(ds, now) ) ]_vars

\* C12 witness: a claim without fees was rejected in the middle of a day
\* whose window had passed, and the day is still there.
C12_Witness ==
    /\ last.op = "distribute_fees"
    /\ last.page = 0
    /\ last.result = "NoFeesToClaim"
    /\ ds.current_day >= 1
    /\ ds.current_page >= 1
    /\ ds.pages_done_mask # {}
    /\ can_distribute(ds, now)

\* C13: a distribute_fees call that returns an error leaves
\* DistributionState and the treasury balances exactly as before the call.
C13_ErrorsCommitNothing ==
    [][ ( last'.op = "distribute_fees" /\ last'.result # "Ok" )
        => ( /\ ~last'.started
             /\ ~last'.effects
             /\ ds' = ds
             /\ treasury_quote' = treasury_quote
             /\ treasury_base' = treasury_base ) ]_vars

\* C13 witness: a transfer failed in a page after the day's carry_over and
\* payouts had already grown.
C13_Witness ==
    /\ last.op = "distribute_fees"
    /\ last.result = "InsufficientFunds"
    /\ ds.daily_distributed > 0
    /\ ds.carry_over > 0

\* C14: an overflow fails the page with MathOverflow and is never saturated
\* into a committed result.  On a committed page with one investor, who
\* holds all of total_locked, investor_fee_quote * locked_amount / total_locked
\* is investor_fee_quote: the investor's amount is the whole investor_fee_quote.
C14_NoSaturatedAmount ==
    ( /\ last.op = "distribute_fees"
      /\ last.effects
      /\ Len(last.lines) = 1 )
    => ( last.lines[1].amount = last.fee_quote /\ last.rounding_remainder = 0 )

\* C15: day_complete becomes true only in a call with is_final_page = true,
\* a day is closed (and the creator paid) at most once, and a new day starts
\* only after the day before it was closed.
C15_DayClosedExactlyOnce ==
    [][ /\ ( ds'.day_complete /\ ~ds.day_complete )
           => ( last'.op = "distribute_fees" /\ last'.is_final /\ last'.closed )
        /\ ( last'.op = "distribute_fees" /\ last'.closed /\ ~last'.started )
           => ~ds.day_complete
        /\ ( last'.op = "distribute_fees" /\ last'.started )
           => ( ds.current_day = 0 \/ ds.day_complete ) ]_vars

\* C16: once day_complete is true, a distribute_fees call that does not
\* start a new day transfers nothing and changes no counter, for any page
\* and either value of is_final_page.
C16_CompleteDayIsFrozen ==
    [][ ( /\ ds.day_complete
          /\ last'.op = "distribute_fees"
          /\ ~last'.started )
        => ( /\ ~last'.effects
             /\ ds' = ds
             /\ treasury_quote' = treasury_quote ) ]_vars

\* C17: initialize_vault on a fresh vault fails with InvalidFeeShareBps when
\* investor_fee_share_bps > 10000, it fails on a vault that is initialized,
\* a failure changes nothing, a success leaves DistributionState all zero,
\* and investor_fee_share_bps <= 10000 in every state.
C17_InitializeVaultOnce ==
    [][ /\ vault'.investor_fee_share_bps <= MAX_BPS
        /\ \A c \in VaultConfigs :
              ( ~vault.is_initialized /\ c[1] > MAX_BPS )
              => initialize_vault(vault, "creator", c[1], c[2], c[3], "quote").err
                    = "InvalidFeeShareBps"
        /\ last'.op = "initialize_vault"
           => ( /\ vault.is_initialized => last'.result # "Ok"
                /\ last'.result # "Ok"
                   => ( vault' = vault /\ ds' = ds /\ treasury_mint' = treasury_mint )
                /\ last'.result = "Ok"
                   => ( /\ ~vault.is_initialized
                        /\ vault'.is_initialized
                        /\ ds' = DistributionStateDefault ) ) ]_vars

\* C17 witness: a share above 10000 has just been rejected and no vault
\* exists.
C17_Witness ==
    /\ last.op = "initialize_vault"
    /\ last.result = "InvalidFeeShareBps"
    /\ vault = VaultDefault
    /\ ds = DistributionStateDefault

\* C18: distribute_fees is rejected with no effect unless is_initialized and
\* position_initialized are both true; initialize_fee_position succeeds only
\* on an initialized vault whose position is not initialized, and
\* position_initialized never goes back to false.
C18_NoDistributionBeforeSetup ==
    [][ /\ ( /\ last'.op = "distribute_fees"
             /\ ~(vault.is_initialized /\ vault.position_initialized) )
           => ( last'.result # "Ok" /\ NothingCommitted )
        /\ ( last'.op = "initialize_fee_position" /\ last'.result = "Ok" )
           => ( /\ vault.is_initialized
                /\ ~vault.position_initialized
                /\ vault'.position_initialized )
        /\ vault.position_initialized
           => ( vault'.position_initialized /\ vault'.is_initialized ) ]_vars

\* C18 witness: a distribution was rejected on a vault that is initialized
\* and has no fee position yet.
C18_Witness ==
    /\ last.op = "distribute_fees"
    /\ last.result = "ConstraintRaw"
    /\ vault.is_initialized
    /\ ~vault.position_initialized
    /\ can_distribute(ds, now)

\* allocations tried on every state, equal to and different from the stored one
AllocationInputs == { 0, 4, 7 }

\* C19: update_investor_data(a) leaves total_investor_allocation = a whatever
\* it was, a second identical call changes nothing more, no other Vault
\* field changes, and the instruction leaves DistributionState and the
\* treasuries alone at any point of a day.
C19_AllocationOverwrite ==
    [][ /\ vault.is_initialized
           => \A a \in AllocationInputs :
                 LET once == update_investor_data(vault, a)
                     twice == update_investor_data(once.v, a)
                 IN  /\ once.err = "Ok"
                     /\ once.v.total_investor_allocation = a
                     /\ twice.v = once.v
                     /\ once.v = [ vault EXCEPT !.total_investor_allocation = a ]
        /\ last'.op = "update_investor_data"
           => ( /\ ds' = ds
                /\ treasury_quote' = treasury_quote
                /\ treasury_base' = treasury_base
                /\ applied' = applied
                /\ last'.result = "Ok"
                   => \E a \in Allocations :
                         vault' = [ vault EXCEPT !.total_investor_allocation = a ] ) ]_vars

\* C19 witness: the allocation was set between two pages of a day.
C19_Witness ==
    /\ last.op = "update_investor_data"
    /\ last.result = "Ok"
    /\ vault.total_investor_allocation = 4
    /\ ds.current_day >= 1
    /\ ds.current_page >= 1
    /\ ~ds.day_complete
    /\ ds.day_investor_total > 0

\* C20: once initialize_vault has succeeded, no operation changes the
\* vault's creator address, quote mint, investor_fee_share_bps,
\* min_payout_lamports or daily_cap_lamports.
C20_ConfigImmutable ==
    [][ vault.is_initialized
        => ( /\ vault'.creator_wallet = vault.creator_wallet
             /\ vault'.quote_mint = vault.quote_mint
             /\ vault'.investor_fee_share_bps = vault.investor_fee_share_bps
             /\ vault'.min_payout_lamports = vault.min_payout_lamports
             /\ vault'.daily_cap_lamports = vault.daily_cap_lamports ) ]_vars

\* C21: update_investor_data and initialize_fee_position signed by a key
\* that is not the vault's creator are rejected and do not change the vault.
C21_UnauthorizedRejected ==
    [][ ( /\ last'.op \in { "update_investor_data", "initialize_fee_position" }
          /\ last'.authority # vault.creator_wallet )
        => ( last'.result # "Ok" /\ vault' = vault ) ]_vars

RECURSIVE SumSeq(_, _)
SumSeq(q, n) == IF n = 0 THEN 0 ELSE SumSeq(q, n - 1) + q[n]

MinOf(a, b) == IF a <= b THEN a ELSE b

\* the reference setup with dust threshold m, run as a single final page 0
ReferencePage(m) ==
    /\ last'.op = "distribute_fees"
    /\ last'.effects
    /\ last'.page = 0
    /\ last'.is_final
    /\ last'.quote_delta = 1000
    /\ last'.roster = <<3000, 2000>>
    /\ vault.investor_fee_share_bps = 8000
    /\ vault.total_investor_allocation = 10000
    /\ vault.min_payout_lamports = m
    /\ vault.daily_cap_lamports = NoCap

C23_DustScenarioOriginal ==
    [][ ReferencePage(35)
        => ( /\ \A i \in 1..Len(last'.lines) : ~last'.lines[i].paid
             /\ ds'.day_investor_total = 0
             /\ ds'.carry_over = ds.carry_over + 50
             /\ last'.creator_payout = 1000 ) ]_vars

\* C23 amended: an amount below min_payout_lamports is not transferred, is
\* added to carry_over and is counted neither in day_investor_total nor in
\* daily_distributed; an amount at or above the threshold is not dust (with
\* no cap it is transferred).  In the reference setup with threshold 3500
\* both amounts (30,000 and 20,000) are paid and the creator payout is
\* 50,000; with threshold 35,000 both are diverted, day_investor_total = 0,
\* carry_over grows by 50,000 and the creator payout is 100,000.
C23_DustPolicy ==
    [][ /\ ( last'.op = "distribute_fees" /\ last'.effects )
           => LET m == vault.min_payout_lamports
                  total0 == IF last'.started THEN 0 ELSE ds.day_investor_total
                  daily0 == IF last'.started THEN 0 ELSE ds.daily_distributed
              IN  /\ \A i \in 1..Len(last'.lines) :
                        /\ last'.lines[i].amount < m => ~last'.lines[i].paid
                        /\ ( last'.lines[i].amount >= m /\ vault.daily_cap_lamports = NoCap )
                              => last'.lines[i].paid
                  /\ ds'.day_investor_total = total0 + Transferred(last')
                  /\ ds'.daily_distributed = daily0 + Transferred(last')
                  /\ treasury_quote' = treasury_quote + last'.quote_delta
                                         - Transferred(last') - last'.creator_payout
                  /\ ds'.carry_over
                        = ds.carry_over + last'.rounding_remainder + Diverted(last')
        /\ ReferencePage(35)
           => ( /\ last'.lines = << [ amount |-> 300, before |-> 0, paid |-> TRUE ],
                                    [ amount |-> 200, before |-> 300, paid |-> TRUE ] >>
                /\ ds'.day_investor_total = 500
                /\ ds'.carry_over = ds.carry_over
                /\ last'.creator_payout = 500 )
        /\ ReferencePage(350)
           => ( /\ last'.lines = << [ amount |-> 300, before |-> 0, paid |-> FALSE ],
                                    [ amount |-> 200, before |-> 0, paid |-> FALSE ] >>
                /\ ds'.day_investor_total = 0
                /\ ds'.carry_over = ds.carry_over + 500
                /\ last'.creator_payout = 1000 ) ]_vars

\* C23 witness: the reference setup with a threshold above both amounts was
\* run as a single final page 0 and everything went to carry_over.
C23_Witness ==
    /\ last.op = "distribute_fees"
    /\ last.effects
    /\ last.page = 0
    /\ last.is_final
    /\ last.roster = <<3000, 2000>>
    /\ vault.min_payout_lamports = 350
    /\ Len(last.lines) = 2
    /\ Diverted(last) = 500
    /\ ds.day_investor_total = 0
    /\ ds.carry_over >= 500

\* C24: carry_over never decreases, whatever the operation (a page of
\* distribute_fees, the start of a new day, update_investor_data).
C24_CarryOverNeverDecreases ==
    [][ ds'.carry_over >= ds.carry_over ]_vars

\* C25: when the quote mint is token X (resp. Y) of the pool and the
\* computed range lies within [min_bin_id, max_bin_id],
\* calculate_quote_only_ticks returns tick_lower < tick_upper with
\* tick_upper < active_id (resp. tick_lower > active_id), for every bin_step
\* and active_id; it fails with InvalidQuoteMint when the quote mint is
\* neither token and with InvalidPoolConfiguration when the range leaves the
\* bin bounds.
C25_QuoteOnlyRange ==
    last.op = "calculate_quote_only_ticks"
    => LET pool == last.args[1]
           quote_mint == last.args[2]
       IN  /\ quote_mint \notin { pool.token_x_mint, pool.token_y_mint }
                => last.ret = <<"InvalidQuoteMint">>
           /\ last.ret[1] \in { "Ok", "InvalidQuoteMint", "InvalidPoolConfiguration" }
           /\ last.ret[1] = "Ok"
                => ( /\ pool.min_bin_id <= last.ret[2]
                     /\ last.ret[3] <= pool.max_bin_id
                     /\ last.ret[2] < last.ret[3]
                     /\ quote_mint = pool.token_x_mint => last.ret[3] < pool.active_id
                     /\ quote_mint = pool.token_y_mint => last.ret[2] > pool.active_id )

\* C26: when the quote mint is token X or token Y of the pool,
\* extract_quote_fees returns exactly the claimed amount of the quote side if
\* the claimed amount of the base side is zero, and fails with
\* BaseFeesNotAllowed if the base side is positive.
C26_QuoteFeesOnly ==
    ( /\ last.op = "extract_quote_fees"
      /\ last.args[4] \in { last.args[3].token_x_mint, last.args[3].token_y_mint } )
    => LET quote_is_x == last.args[4] = last.args[3].token_x_mint
           quote_side == IF quote_is_x THEN last.args[1] ELSE last.args[2]
           base_side == IF quote_is_x THEN last.args[2] ELSE last.args[1]
       IN  /\ base_side = 0 => last.ret = <<"Ok", quote_side>>
           /\ base_side > 0 => last.ret = <<"BaseFeesNotAllowed">>

\* C26 witness: with the quote on the Y side and nothing claimed on the X
\* side, the Y amount came back.
C26_Witness ==
    /\ last.op = "extract_quote_fees"
    /\ last.args[4] = last.args[3].token_y_mint
    /\ last.args[4] # last.args[3].token_x_mint
    /\ last.args[1] = 0
    /\ last.args[2] = 7
    /\ last.ret = <<"Ok", 7>>

\* C27: in every state and for every page index i, bit i of pages_done_mask
\* is set if and only if page i's effects have been committed in the current
\* day.
C27_MaskTracksCommits ==
    \A i \in 0..MaxPageLong :
        is_page_done(ds, i) <=> i \in PagesOf(applied)

\* C28: is_page_done(p) is false and mark_page_done(p) changes nothing for
\* every p >= 128; a final page with index >= 128 that has committed and is
\* submitted again with page = current_page is, when the call succeeds,
\* executed again: the page's transfers and the creator payout are applied a
\* second time and the call is not a no-op.
C28_NoReplayProtectionPast128 ==
    [][ /\ \A p \in MASK_BITS..(MaxPageLong + 1) :
              ~is_page_done(ds, p) /\ mark_page_done(ds, p) = ds
        /\ ( /\ last'.op = "distribute_fees"
             /\ last'.page >= MASK_BITS
             /\ last'.page \in PagesOf(applied)
             /\ last'.page = ds.current_page
             /\ last'.is_final
             /\ ds.day_complete
             /\ ~last'.started
             /\ last'.result = "Ok" )
           => ( /\ last'.effects
                /\ last'.closed
                /\ applied' = Append(applied, last'.page)
                /\ ds'.pages_done_mask = ds.pages_done_mask
                /\ ds'.day_investor_total = ds.day_investor_total + Transferred(last')
                /\ last'.creator_payout
                     = IF ds'.day_claimed_fees >= ds'.day_investor_total
                       THEN ds'.day_claimed_fees - ds'.day_investor_total ELSE 0
                /\ treasury_quote'
                     = treasury_quote - Transferred(last') - last'.creator_payout ) ]_vars

\* C28 witness: final page 128 committed twice in one day, the second time
\* with an investor transfer and a creator payout.
C28_Witness ==
    /\ last.op = "distribute_fees"
    /\ last.result = "Ok"
    /\ last.page = MASK_BITS
    /\ last.is_final
    /\ last.closed
    /\ Len(applied) >= 2
    /\ applied[Len(applied)] = MASK_BITS
    /\ applied[Len(applied) - 1] = MASK_BITS
    /\ Transferred(last) > 0
    /\ last.creator_payout > 0

\* C29: a successful non-final page increases current_page by exactly 1
\* (counted from 0 when the call starts a day), a successful final page and
\* an idempotent replay leave it unchanged, a failed call leaves it
\* unchanged, the only other change is the reset to 0 by start_new_day, and
\* no step increases current_page by more than 1.
C29_UnitSteps ==
    [][ LET from == IF last'.started THEN 0 ELSE ds.current_page
        IN  /\ last'.op # "distribute_fees" => ds'.current_page = ds.current_page
            /\ last'.op = "distribute_fees"
               => ( /\ last'.result # "Ok" => ds'.current_page = ds.current_page
                    /\ ( last'.result = "Ok" /\ last'.effects /\ ~last'.is_final )
                          => ds'.current_page = from + 1
                    /\ ( last'.result = "Ok" /\ last'.effects /\ last'.is_final )
                          => ds'.current_page = from
                    /\ ( last'.result = "Ok" /\ ~last'.effects )
                          => ( ~last'.started /\ ds'.current_page = ds.current_page ) )
            /\ ds'.current_page <= ds.current_page + 1 ]_vars

\* C30: a day starts only inside a successful distribute_fees call with
\* page = 0, never for page > 0; the start sets last_distribution_ts = now,
\* increases current_day by exactly 1, resets daily_distributed,
\* current_page, day_claimed_fees, day_investor_total, page_cursor,
\* pages_processed and pages_done_mask to zero and day_complete to false, and
\* leaves carry_over and the vault unchanged (the page 0 that follows in the
\* same call then counts from those zeros).
C30_DayStart ==
    [][ /\ ( \/ ds'.current_day # ds.current_day
             \/ ds'.last_distribution_ts # ds.last_distribution_ts )
           => ( /\ last'.op = "distribute_fees"
                /\ last'.result = "Ok"
                /\ last'.page = 0
                /\ last'.started )
        /\ ( last'.op = "distribute_fees" /\ last'.page > 0 )
           => ( ~last'.started /\ ds'.current_day = ds.current_day )
        /\ ( last'.op = "distribute_fees" /\ last'.started )
           => LET n == start_new_day(ds, now)
              IN  /\ last'.result = "Ok"
                  /\ last'.page = 0
                  /\ can_distribute(ds, now)
                  /\ n = [ ds EXCEPT !.last_distribution_ts = now,
                                     !.current_day = ds.current_day + 1,
                                     !.daily_distributed = 0,
                                     !.current_page = 0,
                                     !.day_claimed_fees = 0,
                                     !.day_investor_total = 0,
                                     !.page_cursor = 0,
                                     !.pages_processed = 0,
                                     !.pages_done_mask = {},
                                     !.day_complete = FALSE ]
                  /\ n.carry_over = ds.carry_over
                  /\ vault' = vault
                  /\ ds'.last_distribution_ts = now
                  /\ ds'.current_day = ds.current_day + 1
                  /\ ds'.day_claimed_fees = last'.quote_delta
                  /\ ds'.daily_distributed = Transferred(last')
                  /\ ds'.day_investor_total = Transferred(last')
                  /\ ds'.current_page = IF last'.is_final THEN 0 ELSE 1
                  /\ ds'.page_cursor = IF last'.is_final THEN 0 ELSE 1
                  /\ ds'.pages_processed = IF last'.is_final THEN 0 ELSE 1
                  /\ ds'.pages_done_mask = {0}
                  /\ ds'.day_complete = last'.is_final
                  /\ ds'.carry_over
                       = ds.carry_over + last'.rounding_remainder + Diverted(last') ]_vars

\* C30 witness: a second day was started over a closed first day that had
\* paid investors and left a carry-over.
C30_Witness ==
    /\ last.op = "distribute_fees"
    /\ last.started
    /\ last.page = 0
    /\ ds.current_day = 2
    /\ ds.carry_over > 0
    /\ ds.last_distribution_ts = now
    /\ Diverted(last) = 0
    /\ last.rounding_remainder = 0

\* C31: day_claimed_fees changes only when a page-0 call starts a new day
\* and records the claim; no distribute_fees call with page > 0, no
\* idempotent replay and no update_investor_data call changes it.
C31_ClaimFixedAtPageZero ==
    [][ /\ ds'.day_claimed_fees # ds.day_claimed_fees
           => ( /\ last'.op = "distribute_fees"
                /\ last'.result = "Ok"
                /\ last'.page = 0
                /\ last'.started )
        /\ ( last'.op = "distribute_fees" /\ last'.started )
           => ds'.day_claimed_fees = last'.quote_delta
        /\ ( last'.op = "distribute_fees" /\ last'.page > 0 )
           => ds'.day_claimed_fees = ds.day_claimed_fees
        /\ ( last'.op = "distribute_fees" /\ last'.result = "Ok" /\ ~last'.effects )
           => ds'.day_claimed_fees = ds.day_claimed_fees
        /\ last'.op = "update_investor_data"
           => ds'.day_claimed_fees = ds.day_claimed_fees ]_vars

\* C31 witness: a final page after page 0 committed and closed the day, and
\* the day's claim is still the one recorded at page 0.
C31_Witness ==
    /\ last.op = "distribute_fees"
    /\ last.result = "Ok"
    /\ last.effects
    /\ last.page > 0
    /\ last.is_final
    /\ ~last.started
    /\ ds.day_complete
    /\ ds.day_claimed_fees > 0

\* C32 as stated: on a vault with a cap, investor j of a page is diverted to
\* carry_over exactly when (daily_distributed at its turn) + amount_j > cap.
C32_CapOrderOriginal ==
    [][ ( /\ last'.op = "distribute_fees"
          /\ last'.effects
          /\ vault.daily_cap_lamports # NoCap )
        => \A j \in 1..Len(last'.lines) :
              ~last'.lines[j].paid
                <=> last'.lines[j].before + last'.lines[j].amount
                      > vault.daily_cap_lamports[1] ]_vars

\* C32 amended: on a vault with a cap the investors of a page are taken in
\* roster order; daily_distributed at the turn of investor j is its value
\* before the page plus the amounts paid to earlier investors of the page; an
\* investor whose amount is not below min_payout_lamports is diverted to
\* carry_over exactly when that value + amount_j > cap (an amount below
\* min_payout_lamports is diverted whatever the cap); a diverted investor
\* does not change daily_distributed and does not stop the page, so a later
\* investor that fits under the cap is paid.
C32_CapOrder ==
    [][ ( /\ last'.op = "distribute_fees"
          /\ last'.effects
          /\ vault.daily_cap_lamports # NoCap )
        => LET cap == vault.daily_cap_lamports[1]
               daily0 == IF last'.started THEN 0 ELSE ds.daily_distributed
           IN  /\ Len(last'.lines) = Len(last'.roster)
               /\ \A j \in 1..Len(last'.lines) :
                     /\ last'.lines[j].before
                          = daily0 + SumLines(last'.lines, TRUE, j - 1)
                     /\ last'.lines[j].amount < vault.min_payout_lamports
                          => ~last'.lines[j].paid
                     /\ last'.lines[j].amount >= vault.min_payout_lamports
                          => ( ~last'.lines[j].paid
                                 <=> last'.lines[j].before + last'.lines[j].amount > cap )
               /\ ds'.daily_distributed = daily0 + Transferred(last')
               /\ ds'.daily_distributed <= cap
               /\ ds'.carry_over
                    = ds.carry_over + last'.rounding_remainder + Diverted(last') ]_vars

\* C32 witness: the first investor of a page was rejected by the cap and the
\* second, with a smaller amount that fits, was paid.
C32_Witness ==
    /\ last.op = "distribute_fees"
    /\ last.effects
    /\ vault.daily_cap_lamports = SomeCap(200)
    /\ Len(last.lines) = 2
    /\ last.lines[1].amount >= vault.min_payout_lamports
    /\ ~last.lines[1].paid
    /\ last.lines[2].amount < last.lines[1].amount
    /\ last.lines[2].paid
    /\ ds.daily_distributed = last.lines[2].amount

\* C33: daily_distributed = day_investor_total in every state; a call that
\* starts a day counts both from zero, and both grow in a page by exactly
\* the amounts transferred to investors.
C33_CountersAgree ==
    [][ /\ ds'.daily_distributed = ds'.day_investor_total
        /\ ( last'.op = "distribute_fees" /\ last'.effects )
           => LET from == IF last'.started THEN 0 ELSE ds.daily_distributed
              IN  /\ ds'.daily_distributed = from + Transferred(last')
                  /\ ds'.day_investor_total = from + Transferred(last')
                  /\ treasury_quote' = treasury_quote + last'.quote_delta
                                         - Transferred(last') - last'.creator_payout
        /\ ~( last'.op = "distribute_fees" /\ last'.effects )
           => ( /\ ds'.daily_distributed = ds.daily_distributed
                /\ ds'.day_investor_total = ds.day_investor_total ) ]_vars

\* C33 witness: the second page of a day paid an investor on top of what the
\* first page had paid.
C33_Witness ==
    /\ last.op = "distribute_fees"
    /\ last.effects
    /\ last.page > 0
    /\ Transferred(last) > 0
    /\ ds.daily_distributed > Transferred(last)
    /\ ds.day_investor_total = ds.daily_distributed

\* C34: a distribute_fees call with page = 0 that passes the 24h gate and
\* the claim guard succeeds whatever day_complete and current_page are; when
\* the day before was not complete its per-day counters are discarded, the
\* creator payout of the call is taken from the new day's claim only, and
\* what the old day had not paid out stays in the treasury.
C34_NewDayReplacesUnfinished ==
    [][ ( /\ last'.op = "distribute_fees"
          /\ last'.page = 0
          /\ AccountsValid
          /\ now >= ds.last_distribution_ts + SECONDS_PER_DAY
          /\ last'.result \notin { "BaseFeesDetected", "NoFeesToClaim" } )
        => ( /\ last'.result = "Ok"
             /\ last'.started
             /\ ds'.current_day = ds.current_day + 1
             /\ ds'.day_claimed_fees = last'.quote_delta
             /\ ds'.day_investor_total = Transferred(last')
             /\ ds'.daily_distributed = Transferred(last')
             /\ ds'.pages_done_mask = {0}
             /\ ds'.day_complete = last'.is_final
             /\ last'.creator_payout
                  = IF last'.is_final THEN last'.quote_delta - Transferred(last') ELSE 0
             /\ treasury_quote' = treasury_quote + last'.quote_delta
                                    - Transferred(last') - last'.creator_payout
             /\ treasury_quote' >= treasury_quote ) ]_vars

\* C34 witness: day 2 was started and closed by one final page 0 while day 1
\* had never been closed; the treasury still holds what day 1 did not pay.
C34_Witness ==
    /\ last.op = "distribute_fees"
    /\ last.result = "Ok"
    /\ last.started
    /\ last.is_final
    /\ last.closed
    /\ ds.current_day = 2
    /\ ds.day_complete
    /\ last.creator_payout + Transferred(last) = ds.day_claimed_fees
    /\ treasury_quote > 0

\* C35: on a day closed by a final page with day_investor_total <=
\* day_claimed_fees, the quote amount transferred out of the treasury during
\* the day (investor transfers plus creator payout) equals day_claimed_fees:
\* the closing payout is day_claimed_fees - day_investor_total, it includes
\* what the day added to carry_over, and it is the day's only creator payout.
C35_CarryOverPaidToCreator ==
    [][ ( /\ last'.op = "distribute_fees"
          /\ last'.effects
          /\ last'.closed
          /\ ds'.day_investor_total <= ds'.day_claimed_fees )
        => ( /\ last'.creator_payout = ds'.day_claimed_fees - ds'.day_investor_total
             /\ treasury_quote' = treasury_quote + last'.quote_delta
                                    - Transferred(last') - last'.creator_payout
             /\ ( ds'.carry_over - ds.carry_over
                    = last'.rounding_remainder + Diverted(last') )
             /\ ( last'.started \/ ~ds.day_complete \/ last'.creator_payout = 0 ) ) ]_vars

====
